---- MODULE Spec2Model ----
(***************************************************************************)
(* Model of the glium renderer of oriole-text (src/src/lib.rs):            *)
(*   - TextMesh::compute_buffers, the glyph-run to vertex/index conversion *)
(*   - TextMesh::new / TextMesh::set / TextMesh::width, the mesh lifecycle *)
(*   - the fragment stage of SolidTextProgram                              *)
(* f32 values are modelled as integers: the code only copies and compares  *)
(* them (and multiplies by 0.0 / 1.0 in the fragment stage).               *)
(***************************************************************************)
EXTENDS Integers, Sequences, FiniteSets, TLC

\* ------------------------------------------------------------------ bounds

\* number of distinct characters a text is made of
NumChars == 2
\* longest text handed to new / set / compute_buffers
MaxChars == 2
\* largest value of one component of the fill colour
FillMax == 2
\* the sampled distance d is DistanceSample / (2 * DistanceHalf), so that
\* DistanceSample = DistanceHalf is d = 0.5 exactly
DistanceHalf == 2
\* SpecWide: the text has WideGlyphs characters and the loop of
\* compute_buffers is observed from its iteration for glyph FirstWideGlyph on
FirstWideGlyph == 16350
WideGlyphs == 16400

\* ------------------------------------------------------- program constants

\* `as u16`: the index buffer holds u16 values
U16Modulus == 65536

\* ------------------------------------------------------------------ inputs

Chars == 1..NumChars

Texts == UNION {[1..n -> Chars] : n \in 0..MaxChars}

\* what the device can answer to a buffer allocation
DeviceErrors == {"OutOfMemory", "FormatNotSupported"}

DeviceAnswers == {"ok"} \cup DeviceErrors

FillComponents == 0..FillMax

DistanceSamples == 0..(2 * DistanceHalf)

\* --------------------------------------------- layout engine (crate::font)

\* Quad::vertices(): the four corners, in the fixed order
\* (left,bottom) (right,bottom) (right,top) (left,top)
vertices(quad) ==
    << <<quad.left, quad.bottom>>, <<quad.right, quad.bottom>>,
       <<quad.right, quad.top>>, <<quad.left, quad.top>> >>

\* Quad::right(): the rightmost x of the quad
right(quad) == quad.right

\* Font::layout_glyphs: one glyph per character, in text order. The pen
\* advances by 1 per glyph and character c is 3c wide, so a later glyph can
\* end left of an earlier one; the atlas cell of c does not depend on the
\* position in the text.
layout_glyphs(text) ==
    [i \in 1..Len(text) |->
        [in_mesh  |-> [left |-> i - 1, bottom |-> 0,
                       right |-> (i - 1) + 3 * text[i], top |-> 7],
         in_atlas |-> [left |-> 10 * text[i], bottom |-> 20,
                       right |-> 10 * text[i] + 5, top |-> 25]]]

\* ------------------------------------------------ TextMesh::compute_buffers

\* &[ 0,1,2,  2,3,0 ]
triangle_pattern == <<0, 1, 2, 2, 3, 0>>

\* `x as u16`
as_u16(x) == x % U16Modulus

\* vertices.len() + triangle_index
triangle_index_value(vertices_len, t) == vertices_len + triangle_pattern[t]

\* for triangle_index in &[0,1,2, 2,3,0] { indices.push((vertices.len() + triangle_index) as u16) }
push_triangle_indices(indices, vertices_len) ==
    indices \o [t \in 1..Len(triangle_pattern) |->
                    as_u16(triangle_index_value(vertices_len, t))]

\* (mutant) the texture coordinate is taken from the mesh quad
quad_vertex_position_twice(quad_positions, quad_texture_coords, k) ==
    [position |-> quad_positions[k], texture_coordinate |-> quad_positions[k]]

\* GlyphQuadVertex { position: quad_positions[i], texture_coordinate: quad_texture_coords[i] }
quad_vertex(quad_positions, quad_texture_coords, k) ==
    [position |-> quad_positions[k],
     texture_coordinate |-> quad_texture_coords[k]]

\* (mutant) the width is the rightmost edge seen so far
widest_so_far(width_before, glyph) ==
    IF right(glyph.in_mesh) > width_before THEN right(glyph.in_mesh)
    ELSE width_before

\* width = glyph.layout.in_mesh.right()
glyph_width(width_before, glyph) == right(glyph.in_mesh)

\* the body of `for quad_vertex_index in 0..4`, for quad_vertex_index = k - 1:
\* six indices are pushed, then the width is set, then one vertex is pushed
RECURSIVE quad_vertex_loop(_, _, _)
quad_vertex_loop(buffers, glyph, k) ==
    IF k > 4 THEN buffers
    ELSE quad_vertex_loop(
            [vertices |-> Append(buffers.vertices,
                                 quad_vertex(vertices(glyph.in_mesh),
                                             vertices(glyph.in_atlas), k)),
             indices  |-> push_triangle_indices(buffers.indices,
                                                Len(buffers.vertices)),
             width    |-> glyph_width(buffers.width, glyph)],
            glyph, k + 1)

\* `for glyph in font.layout_glyphs(text.chars())`, from glyph number i on
RECURSIVE glyph_loop(_, _, _)
glyph_loop(buffers, glyphs, i) ==
    IF i > Len(glyphs) THEN buffers
    ELSE glyph_loop(quad_vertex_loop(buffers, glyphs[i], 1), glyphs, i + 1)

\* compute_buffers is a pure function of the text: the loops above are run
\* once for every text of the set and the results kept in a table
RECURSIVE buffers_table(_)
buffers_table(texts) ==
    IF texts = {} THEN <<>>
    ELSE LET text == CHOOSE t \in texts : TRUE
         IN  (text :> glyph_loop([vertices |-> <<>>, indices |-> <<>>,
                                  width |-> 0],
                                 layout_glyphs(text), 1))
             @@ buffers_table(texts \ {text})

compute_buffers_of == buffers_table(Texts)

\* TextMesh::compute_buffers(font, text) -> (vertices, indices, width)
compute_buffers(text) == compute_buffers_of[text]

\* ------------------------------------------------------- device (glium)

\* glium::VertexBuffer::new / glium::IndexBuffer::new: the device either
\* keeps a copy of the data or rejects the allocation with an error
buffer_new(data, answer) ==
    IF answer = "ok" THEN [tag |-> "Ok", buffer |-> data]
    ELSE [tag |-> "Err", error |-> answer]

\* glium Buffer::write panics unless the data has the size of the buffer
write_fits(buffer, data) == Len(data) = Len(buffer)

\* --------------------------------------------------------------- TextMesh

NoMesh == [tag |-> "none"]

\* struct TextMesh { vertices, indices, width }
TextMesh(vertex_buffer, index_buffer, w) ==
    [tag |-> "mesh", vertices |-> vertex_buffer, indices |-> index_buffer,
     width |-> w]

\* TextMeshCreationError::Vertex(e)
VertexError(e) == [tag |-> "Err", kind |-> "Vertex", error |-> e]

\* TextMeshCreationError::Index(e)
IndexError(e) == [tag |-> "Err", kind |-> "Index", error |-> e]

\* the allocation calls one operation makes, and what the device answered
DeviceLog(vertex_calls, vertex_answer, index_calls, index_answer) ==
    [vertexCalls |-> vertex_calls, vertex |-> vertex_answer,
     indexCalls |-> index_calls, index |-> index_answer]

NoDeviceCalls == DeviceLog(0, "notcalled", 0, "notcalled")

\* (mutant) the index buffer is allocated before the vertex buffer
new_index_first(text, vertex_answer, index_answer) ==
    LET buffers == compute_buffers(text)
        i == buffer_new(buffers.indices, index_answer)
        v == buffer_new(buffers.vertices, vertex_answer)
    IN  IF i.tag = "Err"
        THEN [ret |-> IndexError(i.error), mesh |-> NoMesh, computed |-> buffers,
              device |-> DeviceLog(0, "notcalled", 1, index_answer)]
        ELSE IF v.tag = "Err"
        THEN [ret |-> VertexError(v.error), mesh |-> NoMesh, computed |-> buffers,
              device |-> DeviceLog(1, vertex_answer, 1, index_answer)]
        ELSE [ret |-> [tag |-> "Ok"],
              mesh |-> TextMesh(v.buffer, i.buffer, buffers.width),
              computed |-> buffers,
              device |-> DeviceLog(1, vertex_answer, 1, index_answer)]

\* TextMesh::new(facade, font, text): the fields of the struct literal are
\* evaluated in order, and `?` returns at the first rejected allocation
new(text, vertex_answer, index_answer) ==
    LET buffers == compute_buffers(text)
        v == buffer_new(buffers.vertices, vertex_answer)
        i == buffer_new(buffers.indices, index_answer)
    IN  IF v.tag = "Err"
        THEN [ret |-> VertexError(v.error), mesh |-> NoMesh, computed |-> buffers,
              device |-> DeviceLog(1, vertex_answer, 0, "notcalled")]
        ELSE IF i.tag = "Err"
        THEN [ret |-> IndexError(i.error), mesh |-> NoMesh, computed |-> buffers,
              device |-> DeviceLog(1, vertex_answer, 1, index_answer)]
        ELSE [ret |-> [tag |-> "Ok"],
              mesh |-> TextMesh(v.buffer, i.buffer, buffers.width),
              computed |-> buffers,
              device |-> DeviceLog(1, vertex_answer, 1, index_answer)]

\* (mutant) the width is added to the cached width
set_adds_width(self, text) ==
    LET buffers == compute_buffers(text)
    IN  IF ~write_fits(self.vertices, buffers.vertices)
           \/ ~write_fits(self.indices, buffers.indices)
        THEN [ret |-> [tag |-> "Panic"], mesh |-> self, computed |-> buffers,
              device |-> NoDeviceCalls]
        ELSE [ret |-> [tag |-> "Unit"],
              mesh |-> TextMesh(buffers.vertices, buffers.indices,
                                self.width + buffers.width),
              computed |-> buffers, device |-> NoDeviceCalls]

\* (mutant) the cached width is not updated
set_keeps_width(self, text) ==
    LET buffers == compute_buffers(text)
    IN  IF ~write_fits(self.vertices, buffers.vertices)
           \/ ~write_fits(self.indices, buffers.indices)
        THEN [ret |-> [tag |-> "Panic"], mesh |-> self, computed |-> buffers,
              device |-> NoDeviceCalls]
        ELSE [ret |-> [tag |-> "Unit"],
              mesh |-> TextMesh(buffers.vertices, buffers.indices, self.width),
              computed |-> buffers, device |-> NoDeviceCalls]

\* TextMesh::set(&mut self, font, text): both buffers are written, then the
\* width. Each write panics on a size mismatch; the index count is six times
\* the vertex count, so the first write already panics when either would and
\* nothing has been written then.
set(self, text) ==
    LET buffers == compute_buffers(text)
    IN  IF ~write_fits(self.vertices, buffers.vertices)
           \/ ~write_fits(self.indices, buffers.indices)
        THEN [ret |-> [tag |-> "Panic"], mesh |-> self, computed |-> buffers,
              device |-> NoDeviceCalls]
        ELSE [ret |-> [tag |-> "Unit"],
              mesh |-> TextMesh(buffers.vertices, buffers.indices,
                                buffers.width),
              computed |-> buffers, device |-> NoDeviceCalls]

\* TextMesh::width(&self)
width(self) == self.width

\* ------------------------------------------ SolidTextProgram, fragment stage

\* (mutant) distance >= 0.5
threshold_inclusive(sample) == IF sample >= DistanceHalf THEN 1 ELSE 0

\* distance > 0.5 ? 1.0 : 0.0, with distance = sample / (2 * DistanceHalf)
threshold(sample) == IF sample > DistanceHalf THEN 1 ELSE 0

\* a * b for vec4, componentwise
vec4_mul(a, b) == [c \in 1..4 |-> a[c] * b[c]]

\* void main() of the fragment shader: color = fill * vec4(vec3(1.0), distance)
fragment_main(fill_colour, sample) ==
    LET distance == threshold(sample)
    IN  vec4_mul(fill_colour, <<1, 1, 1, distance>>)

\* ------------------------------------------------------------------ state

VARIABLES
    mesh,        \* the TextMesh the caller holds, or NoMesh
    shownText,   \* the text of the most recent new / set that succeeded
    lastOp,      \* the most recent call: "none", "compute", "new", "set"
    lastText,    \* its text argument
    result,      \* what it returned
    computed,    \* what its call of compute_buffers returned
    device,      \* the allocation calls it made and the device's answers
    repeated,    \* it is a set that follows a successful set of the same text
    fill,        \* fragment stage: the fill uniform
    distance,    \* fragment stage: the sampled red channel
    color,       \* fragment stage: the output, or <<>> before it ran
    loop         \* SpecWide: the loop of compute_buffers on a long text

vars == <<mesh, shownText, lastOp, lastText, result, computed, device,
          repeated, fill, distance, color, loop>>

meshVars == <<mesh, shownText, lastOp, lastText, result, computed, device,
              repeated>>

shadeVars == <<fill, distance, color>>

\* the loop of compute_buffers, reduced to vertices.len() and to the indices
\* the latest pass of `for quad_vertex_index in 0..4` pushed
LoopAt(vertices_len, pushed, intended) ==
    [vertices_len |-> vertices_len, pushed |-> pushed, intended |-> intended]

MeshIdle ==
    /\ mesh = NoMesh
    /\ shownText = <<>>
    /\ lastOp = "none"
    /\ lastText = <<>>
    /\ result = [tag |-> "None"]
    /\ computed = [vertices |-> <<>>, indices |-> <<>>, width |-> 0]
    /\ device = NoDeviceCalls
    /\ repeated = FALSE

ShadeIdle ==
    /\ fill = <<0, 0, 0, 0>>
    /\ distance = 0
    /\ color = <<>>

LoopIdle == loop = LoopAt(0, <<>>, <<>>)

\* ------------------------------------------------- Spec: the mesh lifecycle

Init == MeshIdle /\ ShadeIdle /\ LoopIdle

\* a direct call of the public TextMesh::compute_buffers
Compute(text) ==
    /\ computed' = compute_buffers(text)
    /\ lastOp' = "compute"
    /\ lastText' = text
    /\ result' = [tag |-> "Buffers"]
    /\ device' = NoDeviceCalls
    /\ repeated' = FALSE
    /\ UNCHANGED <<mesh, shownText, shadeVars, loop>>

\* let mesh = TextMesh::new(facade, font, text): on Err the caller keeps
\* the mesh it had
New(text, vertex_answer, index_answer) ==
    LET r == new(text, vertex_answer, index_answer)
    IN  /\ mesh' = IF r.ret.tag = "Ok" THEN r.mesh ELSE mesh
        /\ shownText' = IF r.ret.tag = "Ok" THEN text ELSE shownText
        /\ lastOp' = "new"
        /\ lastText' = text
        /\ result' = r.ret
        /\ computed' = r.computed
        /\ device' = r.device
        /\ repeated' = FALSE
        /\ UNCHANGED <<shadeVars, loop>>

\* mesh.set(font, text)
Set(text) ==
    /\ mesh # NoMesh
    /\ LET r == set(mesh, text)
       IN  /\ mesh' = r.mesh
           /\ shownText' = IF r.ret.tag = "Unit" THEN text ELSE shownText
           /\ result' = r.ret
           /\ computed' = r.computed
           /\ device' = r.device
    /\ lastOp' = "set"
    /\ lastText' = text
    /\ repeated' = (lastOp = "set" /\ result.tag = "Unit" /\ lastText = text)
    /\ UNCHANGED <<shadeVars, loop>>

Next ==
    \/ \E text \in Texts : Compute(text)
    \/ \E text \in Texts, va \in DeviceAnswers, ia \in DeviceAnswers :
            New(text, va, ia)
    \/ \E text \in Texts : Set(text)

Spec == Init /\ [][Next]_vars

\* ------------------------------------------- SpecShade: the fragment stage

InitShade ==
    /\ MeshIdle /\ LoopIdle
    /\ fill \in [1..4 -> FillComponents]
    /\ distance \in DistanceSamples
    /\ color = <<>>

\* the fragment stage runs for one fragment
Fragment ==
    /\ color = <<>>
    /\ color' = fragment_main(fill, distance)
    /\ UNCHANGED <<fill, distance, meshVars, loop>>

NextShade == Fragment

SpecShade == InitShade /\ [][NextShade]_vars

\* ------------------- SpecWide: compute_buffers on a text of WideGlyphs chars

\* The loop is entered for glyph number FirstWideGlyph (0-based): every
\* earlier glyph has pushed four vertices.
InitWide ==
    /\ MeshIdle /\ ShadeIdle
    /\ loop = LoopAt(4 * FirstWideGlyph, <<>>, <<>>)

\* one pass of the body of `for quad_vertex_index in 0..4`
QuadVertexPass ==
    /\ loop.vertices_len < 4 * WideGlyphs
    /\ loop' = LoopAt(loop.vertices_len + 1,
                      push_triangle_indices(<<>>, loop.vertices_len),
                      [t \in 1..Len(triangle_pattern) |->
                            triangle_index_value(loop.vertices_len, t)])
    /\ UNCHANGED <<meshVars, shadeVars>>

NextWide == QuadVertexPass

SpecWide == InitWide /\ [][NextWide]_vars

\* ------------------------------------------------------------- properties

\* the glyphs the latest call laid out
lastGlyphs == layout_glyphs(lastText)

\* a call of compute_buffers has returned
Called == lastOp # "none"

\* C1: for n glyphs compute_buffers returns exactly 4n vertices and exactly
\* 6n indices (so none of either for the empty text).
C1_VertexAndIndexCounts ==
    Called =>
        /\ Len(computed.vertices) = 4 * Len(lastGlyphs)
        /\ Len(computed.indices) = 6 * Len(lastGlyphs)

\* C2: every index compute_buffers returns is strictly less than the number
\* of vertices it returns.
C2_IndicesBelowVertexCount ==
    Called =>
        \A j \in 1..Len(computed.indices) :
            computed.indices[j] < Len(computed.vertices)

\* the index list of n glyphs under the pattern {0,1,2,2,3,0} offset by 4i
PatternIndices(n) ==
    [j \in 1..(6 * n) |-> 4 * ((j - 1) \div 6) + triangle_pattern[((j - 1) % 6) + 1]]

\* C3: the indices emitted for glyph i are exactly 4i, 4i+1, 4i+2, 4i+2,
\* 4i+3, 4i in that order and nothing else, so the index list is the
\* concatenation of these six-value groups in glyph order.
C3_SixIndicesPerGlyph ==
    Called => computed.indices = PatternIndices(Len(lastGlyphs))

\* C4: vertex number 4i+k has the position of corner k of glyph i's in_mesh
\* quad and the texture coordinate of corner k of its in_atlas quad.
C4_VerticesFollowQuadCorners ==
    Called =>
        /\ Len(computed.vertices) = 4 * Len(lastGlyphs)
        /\ \A i \in 1..Len(lastGlyphs) : \A k \in 1..4 :
            LET v == computed.vertices[4 * (i - 1) + k]
            IN  /\ v.position = vertices(lastGlyphs[i].in_mesh)[k]
                /\ v.texture_coordinate = vertices(lastGlyphs[i].in_atlas)[k]

\* C4 witness: two different glyphs have been converted
C4_Witness ==
    /\ Called
    /\ Len(lastText) >= 2
    /\ lastText[1] # lastText[2]

\* C5: the returned width is right() of the last glyph's in_mesh quad, and 0
\* for the empty text, whatever right() of the earlier glyphs is.
C5_WidthIsLastRight ==
    Called =>
        computed.width =
            IF Len(lastGlyphs) = 0 THEN 0
            ELSE right(lastGlyphs[Len(lastGlyphs)].in_mesh)

\* C5 witness: the last glyph ends left of an earlier glyph
C5_Witness ==
    /\ Called
    /\ Len(lastGlyphs) >= 2
    /\ right(lastGlyphs[1].in_mesh) > right(lastGlyphs[Len(lastGlyphs)].in_mesh)

\* C6: no emitted 16-bit index is an intended index of 65536 or more
\* reduced modulo 2^16.
C6_NoIndexWraparound ==
    \A t \in 1..Len(loop.pushed) :
        loop.intended[t] >= U16Modulus
            => loop.pushed[t] # loop.intended[t] % U16Modulus

\* C7: new returns Err(Vertex(e)) exactly when the device rejects the vertex
\* allocation with e, Err(Index(e)) exactly when the vertex allocation
\* succeeds and the device rejects the index allocation with e, and Ok with
\* the computed width exactly when both succeed; no allocation is asked for
\* twice.
C7_NewPropagatesDeviceError ==
    lastOp = "new" =>
        /\ \A e \in DeviceErrors :
            /\ (result = VertexError(e)) <=> (device.vertex = e)
            /\ (result = IndexError(e))
                    <=> (device.vertex = "ok" /\ device.index = e)
        /\ (result.tag = "Ok") <=> (device.vertex = "ok" /\ device.index = "ok")
        /\ result.tag = "Ok" =>
            /\ mesh # NoMesh
            /\ width(mesh) = computed.width
        /\ device.vertexCalls <= 1
        /\ device.indexCalls <= 1

\* C7 witness: the vertex buffer was allocated and the index buffer rejected
C7_Witness ==
    /\ lastOp = "new"
    /\ result = IndexError("OutOfMemory")
    /\ device.vertex = "ok"

\* C8: a set that follows a set of the same text leaves the vertex buffer,
\* the index buffer and the width as the first set left them.
C8_SetTwiceChangesNothing ==
    [][(lastOp' = "set" /\ repeated') => mesh' = mesh]_vars

\* C8 witness: set has been called twice in a row with the same text
C8_Witness ==
    /\ lastOp = "set"
    /\ repeated
    /\ result.tag = "Unit"
    /\ Len(lastText) > 0

====
